---- MODULE Spec2Model ----
(***************************************************************************)
(* Mean-CVaR optimizer (src/app.py): the start-up that builds the frontier *)
(* EFFIZIENZ_GRENZE, the query endpoint optimieren_api, and the numerical  *)
(* helpers they use.                                                       *)
(*                                                                         *)
(* Numbers.  A Python float is held as a record [k, n, d]: k = "fin" is    *)
(* the exact rational n/d (d > 0), k = "inf" is the infinity of sign n,    *)
(* k = "nan" is NaN.  Arithmetic is exact; binary rounding of finite       *)
(* values is not modelled.  Weights are held in units of 1/WeightDen,      *)
(* prices are drawn from PriceSet, risk levels are whole percents.         *)
(***************************************************************************)
EXTENDS Integers, Sequences, FiniteSets, TLC

VARIABLES
    pc,                \* position of the process: start-up steps, then "serving"
    KURSE,             \* module global KURSE (price rows)
    RENDITEN,          \* module global RENDITEN (return rows)
    MITTELWERTE,       \* module global MITTELWERTE (annualised means)
    ASSET_NAMEN,       \* module global ASSET_NAMEN
    eg_definiert,      \* whether the name EFFIZIENZ_GRENZE is bound
    EFFIZIENZ_GRENZE,  \* module global EFFIZIENZ_GRENZE (the frontier)
    ziel_renditen,     \* local of berechne_cvar_effizienzgrenze: the grid
    schritt,           \* position of its for loop (index of the next grid point)
    effizienzgrenze,   \* local of berechne_cvar_effizienzgrenze: the list built
    aufrufe,           \* log: the calls of optimiere_portfolio and their results
    anfrage,           \* the request of the last optimieren_api call
    antwort,           \* its response
    eingabe,           \* input of a risk evaluation (gewichte, renditen, level)
    ausgabe            \* its results (var, cvar)

vars == <<pc, KURSE, RENDITEN, MITTELWERTE, ASSET_NAMEN, eg_definiert,
          EFFIZIENZ_GRENZE, ziel_renditen, schritt, effizienzgrenze, aufrufe,
          anfrage, antwort, eingabe, ausgabe>>

----------------------------------------------------------------------------
(* Bounds of the model *)

MaxTage == 2          \* price rows of a price history: 0..MaxTage
MaxSchritte == 2      \* schritte, the number of grid points of the sweep
WeightDen == 1        \* weights are multiples of 1/WeightDen
MaxZiel == 2          \* finite query targets: k * HANDELSTAGE / 4, |k| <= MaxZiel
MaxRenditeTage == 2   \* rows of a return series given to the risk evaluator

(* Program constants *)

RISIKO_LEVEL_PROZENT == 5    \* RISIKO_LEVEL = 0.05
HANDELSTAGE == 252           \* mittelwerte * 252
STANDARD_ZIEL_PROZENT == 10  \* daten.get('zielRendite', 0.10)

\* the columns of the price table (the model keeps two of the four assets)
SPALTEN == <<"Asset A (Tech)", "Asset B (Energy)">>

\* prices the provider may deliver (strictly positive)
PriceSet == {1, 2}

\* per-asset daily returns given directly to the risk evaluator
RetVals == {-1, 0, 1}

\* risk levels given to it, in percent
RisikoLevels == {RISIKO_LEVEL_PROZENT, 50}

----------------------------------------------------------------------------
(* Floats *)

Abs(i) == IF i < 0 THEN -i ELSE i
Sgn(i) == IF i < 0 THEN -1 ELSE IF i > 0 THEN 1 ELSE 0

RECURSIVE GGT(_, _)
GGT(a, b) == IF b = 0 THEN a ELSE GGT(b, a % b)

Fin(n) == [k |-> "fin", n |-> n, d |-> 1]
\* n/d in lowest terms, d > 0
Rat(n, d) == [k |-> "fin", n |-> n \div GGT(Abs(n), d), d |-> d \div GGT(Abs(n), d)]
NaN == [k |-> "nan", n |-> 0, d |-> 1]
Inf(s) == [k |-> "inf", n |-> s, d |-> 1]

IstEndlich(a) == a.k = "fin"

\* a - b
FSub(a, b) ==
    IF a.k = "nan" \/ b.k = "nan" THEN NaN
    ELSE IF a.k = "inf" /\ b.k = "inf" THEN (IF a.n = b.n THEN NaN ELSE a)
    ELSE IF a.k = "inf" THEN a
    ELSE IF b.k = "inf" THEN Inf(-b.n)
    ELSE Rat(a.n * b.d - b.n * a.d, a.d * b.d)

\* a * b
FMul(a, b) ==
    IF a.k = "nan" \/ b.k = "nan" THEN NaN
    ELSE IF a.k = "inf" \/ b.k = "inf"
         THEN (IF a.n = 0 \/ b.n = 0 THEN NaN ELSE Inf(Sgn(a.n) * Sgn(b.n)))
    ELSE Rat(a.n * b.n, a.d * b.d)

\* a * i for an integer i
FMulInt(a, i) == FMul(a, Fin(i))

\* a / i for an integer i > 0
FDivInt(a, i) ==
    IF a.k = "fin" THEN Rat(a.n, a.d * i) ELSE a

FAdd(a, b) == FSub(a, FMulInt(b, -1))

FNeg(a) == FMulInt(a, -1)

\* abs(a)
FAbs(a) ==
    IF a.k = "nan" THEN NaN
    ELSE IF a.k = "inf" THEN Inf(1)
    ELSE Rat(Abs(a.n), a.d)

\* a < b; every comparison with NaN is false
FLess(a, b) ==
    IF a.k = "nan" \/ b.k = "nan" THEN FALSE
    ELSE IF a.k = "inf" THEN a.n < 0 /\ ~(b.k = "inf" /\ b.n < 0)
    ELSE IF b.k = "inf" THEN b.n > 0
    ELSE a.n * b.d < b.n * a.d

\* a <= b
FLeq(a, b) ==
    IF a.k = "nan" \/ b.k = "nan" THEN FALSE
    ELSE IF a.k = "inf" THEN a.n < 0 \/ (b.k = "inf" /\ b.n > 0)
    ELSE IF b.k = "inf" THEN b.n > 0
    ELSE a.n * b.d <= b.n * a.d

\* a == b
FEq(a, b) == FLeq(a, b) /\ FLeq(b, a)

RECURSIVE FSumme(_)
FSumme(s) == IF s = <<>> THEN Fin(0) ELSE FAdd(s[1], FSumme(Tail(s)))

----------------------------------------------------------------------------
(* Return statistics *)

\* df_kurse.pct_change().dropna(): row t holds (p[t+1] - p[t]) / p[t] per
\* asset; the first row of pct_change is NaN and is dropped
PctChange(df_kurse) ==
    IF Len(df_kurse) < 2 THEN <<>>
    ELSE [t \in 1..(Len(df_kurse) - 1) |->
            [i \in DOMAIN df_kurse[t] |->
                Rat(df_kurse[t + 1][i] - df_kurse[t][i], df_kurse[t][i])]]

\* column i of a table of rows
Spalte(tabelle, i) == [t \in 1..Len(tabelle) |-> tabelle[t][i]]

\* Series.mean(): NaN for an empty series
Mean(s) == IF s = <<>> THEN NaN ELSE FDivInt(FSumme(s), Len(s))

\* berechne_historische_parameter: it has no check of the number of rows and
\* returns on every input; the covariance is NaN with fewer than two return
\* rows and is kept only as that flag
berechne_historische_parameter(df_kurse) ==
    LET renditen == PctChange(df_kurse)
        mittelwerte == [i \in 1..Len(SPALTEN) |-> Mean(Spalte(renditen, i))]
    IN [renditen |-> renditen,
        jaehrliche_mittelwerte |->
            [i \in 1..Len(SPALTEN) |-> FMulInt(mittelwerte[i], HANDELSTAGE)],
        kovarianz_nan |-> Len(renditen) < 2,
        asset_namen |-> SPALTEN]

----------------------------------------------------------------------------
(* Risk evaluation *)

\* np.sum(gewichte * mittelwerte)
portfolio_return(gewichte, mittelwerte) ==
    FSumme([i \in 1..Len(gewichte) |-> FMul(gewichte[i], mittelwerte[i])])

\* renditen.dot(gewichte): the portfolio's return on every day
PortfolioRenditen(gewichte, renditen) ==
    [t \in 1..Len(renditen) |->
        FSumme([i \in 1..Len(gewichte) |-> FMul(renditen[t][i], gewichte[i])])]

\* np.percentile(a, q), linear interpolation between the order statistics
\* around the virtual index (n - 1) * q / 100; NaN for an empty array
Percentile(a, q) ==
    IF a = <<>> THEN NaN
    ELSE LET x == SortSeq(a, FLess)
             n == Len(a)
             lo == ((n - 1) * q) \div 100
             hi == IF lo + 1 > n - 1 THEN n - 1 ELSE lo + 1
             gamma == Rat((n - 1) * q - lo * 100, 100)
         IN FAdd(x[lo + 1], FMul(gamma, FSub(x[hi + 1], x[lo + 1])))

portfolio_value_at_risk(gewichte, renditen, risiko_level) ==
    Percentile(PortfolioRenditen(gewichte, renditen), risiko_level)

\* a mutation of TailRenditen: the returns at or above VaR
TailRenditenOben(gewichte, renditen, risiko_level) ==
    LET var == portfolio_value_at_risk(gewichte, renditen, risiko_level)
        InTail(x) == FLeq(var, x)
    IN SelectSeq(PortfolioRenditen(gewichte, renditen), InTail)

\* portfolio_renditen[portfolio_renditen <= var]
TailRenditen(gewichte, renditen, risiko_level) ==
    LET var == portfolio_value_at_risk(gewichte, renditen, risiko_level)
        InTail(x) == FLeq(x, var)
    IN SelectSeq(PortfolioRenditen(gewichte, renditen), InTail)

portfolio_cvar(gewichte, renditen, risiko_level) ==
    FNeg(Mean(TailRenditen(gewichte, renditen, risiko_level)))

----------------------------------------------------------------------------
(* Input domains *)

\* all tuples of length n over the set S
RECURSIVE Tupel(_, _)
Tupel(S, n) ==
    IF n = 0 THEN {<<>>}
    ELSE {Append(t, x) : t \in Tupel(S, n - 1), x \in S}

\* all sequences over S of a length in lo..hi
Folgen(S, lo, hi) == UNION {Tupel(S, n) : n \in lo..hi}

\* weight vectors inside the bounds (0, 1) of the optimizer
GewichteImRahmen ==
    {[i \in 1..Len(SPALTEN) |-> Rat(t[i], WeightDen)] :
        t \in Tupel(0..WeightDen, Len(SPALTEN))}

\* those that are fully invested (sum 1)
GewichteInvestiert ==
    {g \in GewichteImRahmen : FEq(FSumme(g), Fin(1))}

RenditeZeilen == {[i \in 1..Len(SPALTEN) |-> Fin(t[i])] : t \in Tupel(RetVals, Len(SPALTEN))}

KeineEingabe == [gewichte |-> <<>>, renditen |-> <<>>, risiko_level |-> 0]
KeineAusgabe == [var |-> NaN, cvar |-> NaN]
KeineAnfrage == [body |-> "keine", feld |-> "fehlt", wert |-> NaN]
KeineAntwort == [art |-> "keine", status |-> 0, error |-> "", beste_option |-> 0,
                 daten |-> <<>>]

KursZeilen == Tupel(PriceSet, Len(SPALTEN))

\* finite targets of a query: multiples of a quarter of HANDELSTAGE, which
\* fall on and half-way between the returns the frontiers of the model hold
ZielWerte ==
    {NaN, Inf(1), Inf(-1)}
        \cup {Fin(k * (HANDELSTAGE \div 4)) : k \in (-MaxZiel)..MaxZiel}

\* requests: no JSON body; a JSON object without zielRendite; one whose
\* zielRendite float() rejects; one whose zielRendite float() converts
Anfragen ==
    {[body |-> "kein_json", feld |-> "fehlt", wert |-> NaN],
     [body |-> "json", feld |-> "fehlt", wert |-> NaN],
     [body |-> "json", feld |-> "text", wert |-> NaN]}
        \cup {[body |-> "json", feld |-> "zahl", wert |-> z] : z \in ZielWerte}

----------------------------------------------------------------------------
(* Optimizer and frontier sweep *)

\* what scipy's minimize may hand back: no convergence, or convergence at a
\* fully invested weight vector
MinimizeErgebnisse ==
    {[success |-> FALSE, x |-> <<>>]}
        \cup {[success |-> TRUE, x |-> g] : g \in GewichteInvestiert}

\* optimiere_portfolio, given the result ergebnis of minimize (the
\* volatility it also reports is not stored in the frontier and is left out)
optimiere_portfolio(ziel_rendite, renditen, mittelwerte, risiko_level, ergebnis) ==
    IF ergebnis.success
    THEN [erfolgreich |-> TRUE,
          gewichte |-> ergebnis.x,
          rendite |-> portfolio_return(ergebnis.x, mittelwerte),
          cvar |-> portfolio_cvar(ergebnis.x, renditen, risiko_level)]
    ELSE [erfolgreich |-> FALSE, gewichte |-> <<>>, rendite |-> NaN, cvar |-> NaN]

RECURSIVE FMin(_)
FMin(s) ==
    IF Len(s) = 1 THEN s[1]
    ELSE LET m == FMin(Tail(s))
         IN IF s[1].k = "nan" THEN m
            ELSE IF m.k = "nan" \/ FLess(s[1], m) THEN s[1] ELSE m

RECURSIVE FMax(_)
FMax(s) ==
    IF Len(s) = 1 THEN s[1]
    ELSE LET m == FMax(Tail(s))
         IN IF s[1].k = "nan" THEN m
            ELSE IF m.k = "nan" \/ FLess(m, s[1]) THEN s[1] ELSE m

\* np.linspace(start, stop, num)
Linspace(start, stop, num) ==
    [j \in 1..num |->
        IF num = 1 THEN start
        ELSE FAdd(start, FDivInt(FMulInt(FSub(stop, start), j - 1), num - 1))]

\* the grid of berechne_cvar_effizienzgrenze
ZielRenditen(mittelwerte, schritte) ==
    LET min_rendite == FMul(FMin(mittelwerte), Rat(9, 10))
        max_rendite == FMul(FMax(mittelwerte), Rat(11, 10))
    IN Linspace(min_rendite, max_rendite, schritte)

\* the point berechne_cvar_effizienzgrenze appends for a successful result
Punkt(optimierung) ==
    [rendite |-> optimierung.rendite,
     risiko |-> optimierung.cvar,
     gewichte |-> optimierung.gewichte]

\* a mutation of Anhaengen: the result is appended whether it succeeded or not
AnhaengenImmer(liste, optimierung) == Append(liste, Punkt(optimierung))

\* the body of its loop after the call: a successful result is appended, a
\* failed one is dropped
Anhaengen(liste, optimierung) ==
    IF optimierung.erfolgreich THEN Append(liste, Punkt(optimierung)) ELSE liste

----------------------------------------------------------------------------
(* The query endpoint *)

\* round(x, 2): to the nearest multiple of 1/100, a tie to the even one
Runde2(a) ==
    IF a.k # "fin" THEN a
    ELSE LET num == a.n * 100
             f == num \div a.d
             r == num - f * a.d
             q == IF 2 * r < a.d THEN f
                  ELSE IF 2 * r > a.d THEN f + 1
                  ELSE IF f % 2 = 0 THEN f ELSE f + 1
         IN Rat(q, 100)

\* a mutation of Scan: "<=" for "<", so that the last of several nearest
\* points wins
RECURSIVE ScanLetzter(_, _, _, _, _)
ScanLetzter(grenze, ziel_rendite, i, min_differenz, beste) ==
    IF i > Len(grenze) THEN beste
    ELSE LET differenz == FAbs(FSub(grenze[i].rendite, ziel_rendite))
         IN IF FLeq(differenz, min_differenz)
            THEN ScanLetzter(grenze, ziel_rendite, i + 1, differenz, i)
            ELSE ScanLetzter(grenze, ziel_rendite, i + 1, min_differenz, beste)

\* the scan of optimieren_api from point i on; beste is the position of the
\* point beste_option refers to (0 for None)
RECURSIVE Scan(_, _, _, _, _)
Scan(grenze, ziel_rendite, i, min_differenz, beste) ==
    IF i > Len(grenze) THEN beste
    ELSE LET differenz == FAbs(FSub(grenze[i].rendite, ziel_rendite))
         IN IF FLess(differenz, min_differenz)
            THEN Scan(grenze, ziel_rendite, i + 1, differenz, i)
            ELSE Scan(grenze, ziel_rendite, i + 1, min_differenz, beste)

\* a mutation of BesteOption: the scan skips the first point
BesteOptionAbZwei(grenze, ziel_rendite) == Scan(grenze, ziel_rendite, 2, Inf(1), 0)

BesteOption(grenze, ziel_rendite) == Scan(grenze, ziel_rendite, 1, Inf(1), 0)

Fehler(status, text) ==
    [art |-> "error", status |-> status, error |-> text, beste_option |-> 0,
     daten |-> <<>>]

\* the body of a success response
Antwort(grenze, namen, beste) ==
    [erwarteteRendite |-> Runde2(FMulInt(grenze[beste].rendite, 100)),
     cvarRisiko |-> Runde2(FMulInt(FAbs(grenze[beste].risiko), 100)),
     gewichtung |->
        [i \in 1..Len(grenze[beste].gewichte) |->
            [name |-> namen[i],
             wert |-> Runde2(FMulInt(grenze[beste].gewichte[i], 100))]],
     assetNamen |-> namen,
     effizienzGrenze |->
        [j \in 1..Len(grenze) |->
            [rendite |-> Runde2(FMulInt(grenze[j].rendite, 100)),
             risiko |-> Runde2(FMulInt(FAbs(grenze[j].risiko), 100))]]]

\* what optimieren_api answers to a request.  Reading the unbound name
\* EFFIZIENZ_GRENZE raises NameError before the try block is entered; inside
\* it, a body that is no JSON object and a zielRendite float() rejects raise
\* and end in the except branch.
ApiAntwort(req, definiert, grenze, namen) ==
    IF ~definiert
    THEN [art |-> "uncaught", status |-> 0, error |-> "NameError",
          beste_option |-> 0, daten |-> <<>>]
    ELSE IF grenze = <<>>
    THEN Fehler(500, "Finanzdaten konnten nicht initialisiert werden")
    ELSE IF req.body # "json" \/ req.feld = "text"
    THEN Fehler(500, "Interner Serverfehler")
    ELSE LET ziel_rendite == IF req.feld = "fehlt"
                             THEN Rat(STANDARD_ZIEL_PROZENT, 100)
                             ELSE req.wert
             beste == BesteOption(grenze, ziel_rendite)
         IN IF beste # 0
            THEN [art |-> "ok", status |-> 200, error |-> "",
                  beste_option |-> beste,
                  daten |-> Antwort(grenze, namen, beste)]
            ELSE Fehler(400, "Optimierung fehlgeschlagen oder Zielrendite nicht erreichbar")

----------------------------------------------------------------------------
(* The process: start-up (module import), then queries *)

Init ==
    /\ pc = "laden"
    /\ KURSE = <<>> /\ RENDITEN = <<>> /\ MITTELWERTE = <<>>
    /\ ASSET_NAMEN = <<>> /\ eg_definiert = FALSE /\ EFFIZIENZ_GRENZE = <<>>
    /\ ziel_renditen = <<>> /\ schritt = 0 /\ effizienzgrenze = <<>>
    /\ aufrufe = <<>> /\ anfrage = KeineAnfrage /\ antwort = KeineAntwort
    /\ eingabe = KeineEingabe /\ ausgabe = KeineAusgabe

\* KURSE = lade_historische_kurse(): the provider delivers a price history
Laden ==
    /\ pc = "laden"
    /\ KURSE' \in Folgen(KursZeilen, 0, MaxTage)
    /\ pc' = "parameter"
    /\ UNCHANGED <<RENDITEN, MITTELWERTE, ASSET_NAMEN, eg_definiert,
                   EFFIZIENZ_GRENZE, ziel_renditen, schritt, effizienzgrenze,
                   aufrufe, anfrage, antwort, eingabe, ausgabe>>

\* RENDITEN, MITTELWERTE, KOVARIANZMATRIX, ASSET_NAMEN = berechne_...(KURSE)
Parameter ==
    /\ pc = "parameter"
    /\ LET p == berechne_historische_parameter(KURSE)
       IN /\ RENDITEN' = p.renditen
          /\ MITTELWERTE' = p.jaehrliche_mittelwerte
          /\ ASSET_NAMEN' = p.asset_namen
    /\ pc' = "grenze"
    /\ UNCHANGED <<KURSE, eg_definiert, EFFIZIENZ_GRENZE, ziel_renditen,
                   schritt, effizienzgrenze, aufrufe, anfrage, antwort, eingabe, ausgabe>>

\* berechne_cvar_effizienzgrenze up to its loop: the grid and the empty list
SweepStart ==
    /\ pc = "grenze"
    /\ \E schritte \in 1..MaxSchritte :
          ziel_renditen' = ZielRenditen(MITTELWERTE, schritte)
    /\ effizienzgrenze' = <<>>
    /\ schritt' = 1
    /\ pc' = "sweep"
    /\ UNCHANGED <<KURSE, RENDITEN, MITTELWERTE, ASSET_NAMEN, eg_definiert,
                   EFFIZIENZ_GRENZE, aufrufe, anfrage, antwort, eingabe, ausgabe>>

\* one iteration of its loop
SweepSchritt ==
    /\ pc = "sweep"
    /\ schritt <= Len(ziel_renditen)
    /\ \E ergebnis \in MinimizeErgebnisse :
          LET ziel == ziel_renditen[schritt]
              optimierung == optimiere_portfolio(ziel, RENDITEN, MITTELWERTE,
                                                 RISIKO_LEVEL_PROZENT, ergebnis)
          IN /\ aufrufe' = Append(aufrufe, [ziel |-> ziel, optimierung |-> optimierung])
             /\ effizienzgrenze' = Anhaengen(effizienzgrenze, optimierung)
    /\ schritt' = schritt + 1
    /\ UNCHANGED <<pc, KURSE, RENDITEN, MITTELWERTE, ASSET_NAMEN, eg_definiert,
                   EFFIZIENZ_GRENZE, ziel_renditen, anfrage, antwort, eingabe, ausgabe>>

\* its return, and the assignment EFFIZIENZ_GRENZE = ...
SweepEnde ==
    /\ pc = "sweep"
    /\ schritt > Len(ziel_renditen)
    /\ EFFIZIENZ_GRENZE' = effizienzgrenze
    /\ eg_definiert' = TRUE
    /\ pc' = "serving"
    /\ UNCHANGED <<KURSE, RENDITEN, MITTELWERTE, ASSET_NAMEN, ziel_renditen,
                   schritt, effizienzgrenze, aufrufe, anfrage, antwort, eingabe, ausgabe>>

\* the except branch of the start-up: the provider or the optimizer raised;
\* the names not yet assigned stay unbound
InitFehler ==
    /\ pc \in {"laden", "sweep"}
    /\ pc = "sweep" => schritt <= Len(ziel_renditen)
    /\ pc' = "serving"
    /\ UNCHANGED <<KURSE, RENDITEN, MITTELWERTE, ASSET_NAMEN, eg_definiert,
                   EFFIZIENZ_GRENZE, ziel_renditen, schritt, effizienzgrenze,
                   aufrufe, anfrage, antwort, eingabe, ausgabe>>

\* a mutation of optimieren_api that drops the point it answered with
optimieren_api_verwirft ==
    /\ pc = "serving"
    /\ anfrage' \in Anfragen
    /\ antwort' = ApiAntwort(anfrage', eg_definiert, EFFIZIENZ_GRENZE, ASSET_NAMEN)
    /\ EFFIZIENZ_GRENZE' =
          IF antwort'.art = "ok" THEN Tail(EFFIZIENZ_GRENZE) ELSE EFFIZIENZ_GRENZE
    /\ UNCHANGED <<pc, KURSE, RENDITEN, MITTELWERTE, ASSET_NAMEN, eg_definiert,
                   ziel_renditen, schritt, effizienzgrenze, aufrufe, eingabe,
                   ausgabe>>

\* POST /optimieren
optimieren_api ==
    /\ pc = "serving"
    /\ anfrage' \in Anfragen
    /\ antwort' = ApiAntwort(anfrage', eg_definiert, EFFIZIENZ_GRENZE, ASSET_NAMEN)
    /\ UNCHANGED <<pc, KURSE, RENDITEN, MITTELWERTE, ASSET_NAMEN, eg_definiert,
                   EFFIZIENZ_GRENZE, ziel_renditen, schritt, effizienzgrenze,
                   aufrufe, eingabe, ausgabe>>

Next ==
    \/ Laden
    \/ Parameter
    \/ SweepStart
    \/ SweepSchritt
    \/ SweepEnde
    \/ InitFehler
    \/ optimieren_api

Spec == Init /\ [][Next]_vars

----------------------------------------------------------------------------
(* Properties of the process *)

\* the frontier lifecycle: Ready once a non-empty frontier is bound
Bereit == eg_definiert /\ EFFIZIENZ_GRENZE # <<>>

\* a query has been answered
Beantwortet == pc = "serving" /\ anfrage.body # "keine"

\* the request is malformed: no JSON body, or a zielRendite float() rejects
Fehlgeformt == anfrage.body = "kein_json" \/ anfrage.feld = "text"

\* the target the handler scans for, for a request that is not malformed
ZielDerAnfrage ==
    IF anfrage.feld = "fehlt" THEN Rat(STANDARD_ZIEL_PROZENT, 100) ELSE anfrage.wert

AlleRenditenEndlich == \A j \in 1..Len(EFFIZIENZ_GRENZE) : IstEndlich(EFFIZIENZ_GRENZE[j].rendite)

\* |rendite of point j - target|
Differenz(j) == FAbs(FSub(EFFIZIENZ_GRENZE[j].rendite, ZielDerAnfrage))

\* point b is nearest to the target, and the first of the nearest ones
ErsterNaechster(b) ==
    /\ b \in 1..Len(EFFIZIENZ_GRENZE)
    /\ \A j \in 1..Len(EFFIZIENZ_GRENZE) : FLeq(Differenz(b), Differenz(j))
    /\ \A j \in 1..(b - 1) : FLess(Differenz(b), Differenz(j))

\* C1 as stated: with no frontier built (the start-up raised, or the frontier
\* is empty) every query is answered by the error response with status 500
C1_OhneGrenzeStatus500 ==
    (Beantwortet /\ ~Bereit) => (antwort.art = "error" /\ antwort.status = 500)

\* C2 as stated: for every non-empty frontier and every target the handler
\* converted, the query selects the first of the points nearest to the target
C2_JedesZielErsterNaechster ==
    (Beantwortet /\ Bereit /\ ~Fehlgeformt /\ AlleRenditenEndlich
        /\ ZielDerAnfrage.k # "nan")
        => (antwort.art = "ok" /\ ErsterNaechster(antwort.beste_option))

\* C2 amended: for every non-empty frontier of finite returns and every
\* finite target, the query selects the first of the points nearest to it
C2_EndlichesZielErsterNaechster ==
    (Beantwortet /\ Bereit /\ ~Fehlgeformt /\ AlleRenditenEndlich
        /\ IstEndlich(ZielDerAnfrage))
        => (antwort.art = "ok" /\ ErsterNaechster(antwort.beste_option))

\* witness of C2: a tie between two points of different return, the earlier
\* one selected
C2_Gleichstand ==
    /\ Beantwortet /\ Bereit /\ antwort.art = "ok"
    /\ \E j \in (antwort.beste_option + 1)..Len(EFFIZIENZ_GRENZE) :
          /\ FEq(Differenz(j), Differenz(antwort.beste_option))
          /\ ~FEq(EFFIZIENZ_GRENZE[j].rendite,
                  EFFIZIENZ_GRENZE[antwort.beste_option].rendite)

\* C3 as stated: for every vector of (finite) means the grid is
\* non-decreasing, and so are the targets of the points appended
C3_GitterAufsteigend ==
    (ziel_renditen # <<>> /\ \A i \in 1..Len(MITTELWERTE) : IstEndlich(MITTELWERTE[i]))
        => /\ \A j, k \in 1..Len(ziel_renditen) :
                j < k => FLeq(ziel_renditen[j], ziel_renditen[k])
           /\ \A j, k \in 1..Len(aufrufe) :
                (j < k /\ aufrufe[j].optimierung.erfolgreich
                       /\ aufrufe[k].optimierung.erfolgreich)
                    => FLeq(aufrufe[j].ziel, aufrufe[k].ziel)

\* C4 as stated (its part on malformed input): with a frontier ready, a
\* malformed request is answered by an error of status 400, never 500
C4_FehlgeformtStatus400 ==
    (Beantwortet /\ Bereit /\ AlleRenditenEndlich /\ Fehlgeformt)
        => (antwort.art = "error" /\ antwort.status = 400)

\* C6 as stated: no return statistics are ever bound for a price history of
\* fewer than 2 rows
C6_ZuWenigKurseKeineParameter ==
    (pc \notin {"laden", "parameter"} /\ Len(KURSE) < 2) => MITTELWERTE = <<>>

ErfolgreicheAufrufe ==
    LET Erfolg(a) == a.optimierung.erfolgreich
    IN SelectSeq(aufrufe, Erfolg)

\* C8: the sweep calls optimiere_portfolio once per grid point in grid order;
\* a failed optimization adds nothing and does not stop it, so the frontier
\* returned is the subsequence of the successful results, at most N long
C8_SweepJedenPunktEinmal ==
    /\ pc = "sweep" =>
          /\ Len(aufrufe) = schritt - 1
          /\ effizienzgrenze =
                [j \in 1..Len(ErfolgreicheAufrufe) |-> Punkt(ErfolgreicheAufrufe[j].optimierung)]
    /\ eg_definiert =>
          /\ Len(aufrufe) = Len(ziel_renditen)
          /\ \A j \in 1..Len(aufrufe) : aufrufe[j].ziel = ziel_renditen[j]
          /\ EFFIZIENZ_GRENZE =
                [j \in 1..Len(ErfolgreicheAufrufe) |-> Punkt(ErfolgreicheAufrufe[j].optimierung)]
          /\ Len(EFFIZIENZ_GRENZE) <= Len(ziel_renditen)

\* witness of C8: a sweep that returned after a failed optimization followed
\* by a successful one
C8_FehlschlagDannErfolg ==
    /\ eg_definiert
    /\ \E j \in 1..(Len(aufrufe) - 1) :
          ~aufrufe[j].optimierung.erfolgreich /\ aufrufe[j + 1].optimierung.erfolgreich

\* C9: once the frontier is Ready no step changes it or the asset names, and
\* it stays Ready
C9_GrenzeUnveraendert ==
    [][Bereit => (/\ EFFIZIENZ_GRENZE' = EFFIZIENZ_GRENZE
                  /\ ASSET_NAMEN' = ASSET_NAMEN
                  /\ eg_definiert')]_vars

\* witness of C9: a Ready frontier that has answered a query with a point, a
\* second point left unselected
C9_BereitUndBeantwortet ==
    Beantwortet /\ Bereit /\ antwort.art = "ok" /\ Len(EFFIZIENZ_GRENZE) > 1

\* C10: with a non-empty frontier of finite returns and a finite target the
\* answer is a success whose point is one of the frontier and whose
\* effizienzGrenze lists the frontier point by point in order; status 400 is
\* answered only when no point's difference is below infinity
C10_EndlichImmerErfolg ==
    /\ (Beantwortet /\ Bereit /\ ~Fehlgeformt /\ AlleRenditenEndlich
            /\ IstEndlich(ZielDerAnfrage))
          => /\ antwort.art = "ok" /\ antwort.status = 200
             /\ antwort.beste_option \in 1..Len(EFFIZIENZ_GRENZE)
             /\ antwort.daten.erwarteteRendite =
                   Runde2(FMulInt(EFFIZIENZ_GRENZE[antwort.beste_option].rendite, 100))
             /\ Len(antwort.daten.effizienzGrenze) = Len(EFFIZIENZ_GRENZE)
             /\ \A j \in 1..Len(EFFIZIENZ_GRENZE) :
                   antwort.daten.effizienzGrenze[j].rendite =
                      Runde2(FMulInt(EFFIZIENZ_GRENZE[j].rendite, 100))
    /\ (Beantwortet /\ antwort.status = 400)
          => /\ Bereit /\ ~Fehlgeformt
             /\ \A j \in 1..Len(EFFIZIENZ_GRENZE) : ~FLess(Differenz(j), Inf(1))

\* witness of C10: a success on a frontier of several points, and (in another
\* state) the 400 answer
C10_ErfolgMehrerePunkte ==
    /\ Beantwortet /\ Bereit /\ AlleRenditenEndlich /\ antwort.art = "ok"
    /\ anfrage.feld = "zahl" /\ Len(EFFIZIENZ_GRENZE) > 1
    /\ antwort.beste_option > 1

----------------------------------------------------------------------------
(* The risk evaluator on its own: portfolio_value_at_risk and              *)
(* portfolio_cvar applied to one input.                                    *)

InitRisiko ==
    /\ pc = "risiko_eingabe"
    /\ eingabe \in [gewichte : GewichteImRahmen,
                     renditen : Folgen(RenditeZeilen, 1, MaxRenditeTage),
                     risiko_level : RisikoLevels]
    /\ ausgabe = KeineAusgabe
    /\ KURSE = <<>> /\ RENDITEN = <<>> /\ MITTELWERTE = <<>>
    /\ ASSET_NAMEN = <<>> /\ eg_definiert = FALSE /\ EFFIZIENZ_GRENZE = <<>>
    /\ ziel_renditen = <<>> /\ schritt = 0 /\ effizienzgrenze = <<>>
    /\ aufrufe = <<>> /\ anfrage = KeineAnfrage /\ antwort = KeineAntwort

Risikobewertung ==
    /\ pc = "risiko_eingabe"
    /\ ausgabe' =
          [var |-> portfolio_value_at_risk(eingabe.gewichte, eingabe.renditen,
                                           eingabe.risiko_level),
           cvar |-> portfolio_cvar(eingabe.gewichte, eingabe.renditen,
                                   eingabe.risiko_level)]
    /\ pc' = "risiko_fertig"
    /\ UNCHANGED <<KURSE, RENDITEN, MITTELWERTE, ASSET_NAMEN, eg_definiert,
                   EFFIZIENZ_GRENZE, ziel_renditen, schritt, effizienzgrenze,
                   aufrufe, anfrage, antwort, eingabe>>

NextRisiko == Risikobewertung

SpecRisiko == InitRisiko /\ [][NextRisiko]_vars

\* C5 as stated: |CVaR| >= |VaR| for every weight vector, level and series
C5_AbsCVaRGeAbsVaR ==
    pc = "risiko_fertig" => FLeq(FAbs(ausgabe.var), FAbs(ausgabe.cvar))

\* C5 amended: the value portfolio_cvar returns (the negated mean of the
\* returns <= VaR) is >= the negated VaR, that is, the tail mean is <= VaR;
\* and |CVaR| >= |VaR| whenever VaR <= 0
C5_TailMittelHoechstensVaR ==
    pc = "risiko_fertig" =>
        /\ IstEndlich(ausgabe.var) /\ IstEndlich(ausgabe.cvar)
        /\ FLeq(FNeg(ausgabe.var), ausgabe.cvar)
        /\ FLeq(ausgabe.var, Fin(0)) => FLeq(FAbs(ausgabe.var), FAbs(ausgabe.cvar))

\* witness of C5: a series of several days whose tail mean is strictly worse
\* than a negative VaR
C5_TailEchtSchlechter ==
    /\ pc = "risiko_fertig" /\ Len(eingabe.renditen) > 1
    /\ FLess(ausgabe.var, Fin(0))
    /\ FLess(FNeg(ausgabe.var), ausgabe.cvar)

\* C7 as stated: portfolio_cvar returns a value >= 0
C7_CVaRNichtNegativ ==
    pc = "risiko_fertig" => FLeq(Fin(0), ausgabe.cvar)

====
